---- MODULE Spec2Model ----
(***************************************************************************)
(* GDP Impact Evaluator (src/app.py): the analysis run started by the      *)
(* "Lancer l'Analyse" button.  process_gdp extracts the DEP SCOPE from the *)
(* advisory, reads the arrivals document page by page, matches each table  *)
(* row against the scope, accumulates the delay, highlights the matched    *)
(* identifiers and classifies the mean delay.                              *)
(*                                                                         *)
(* Strings are sequences of one-character strings, so that upper(),        *)
(* strip(), substring search, digit filtering and sorting are computed     *)
(* character by character as Python computes them.  Column indices are     *)
(* 0-based as in the code; NoneIdx stands for Python's None.               *)
(***************************************************************************)
EXTENDS Integers, Sequences, FiniteSets, Bags

\* ------------------------------------------------------------------ bounds
MaxAdvPages == 2
MaxWords == 2
MaxPages == 2
MaxRows == 2
MaxLongRows == 20
MaxLongPages == 1

\* --------------------------------------------------------------- characters
Digits == <<"0", "1", "2", "3", "4", "5", "6", "7", "8", "9">>
UpperLetters == <<"A", "B", "C", "D", "E", "F", "G", "H", "I", "J", "K", "L", "M",
                  "N", "O", "P", "Q", "R", "S", "T", "U", "V", "W", "X", "Y", "Z">>
LowerLetters == <<"a", "b", "c", "d", "e", "f", "g", "h", "i", "j", "k", "l", "m",
                  "n", "o", "p", "q", "r", "s", "t", "u", "v", "w", "x", "y", "z">>

IsDigit(c) == \E i \in 1..10 : Digits[i] = c
IsUpper(c) == \E i \in 1..26 : UpperLetters[i] = c
IsLower(c) == \E i \in 1..26 : LowerLetters[i] = c

\* int() of one ASCII digit
DigitVal(c) == (CHOOSE i \in 1..10 : Digits[i] = c) - 1

\* code point of a character of the alphabet (space, 0-9, A-Z, a-z)
Ord(c) ==
  IF IsDigit(c) THEN 48 + DigitVal(c)
  ELSE IF IsUpper(c) THEN 64 + (CHOOSE i \in 1..26 : UpperLetters[i] = c)
  ELSE IF IsLower(c) THEN 96 + (CHOOSE i \in 1..26 : LowerLetters[i] = c)
  ELSE 32

\* str.upper() on one character
UpperChar(c) ==
  IF IsLower(c) THEN UpperLetters[CHOOSE i \in 1..26 : LowerLetters[i] = c] ELSE c

\* str.upper()
Upper(s) == [i \in 1..Len(s) |-> UpperChar(s[i])]

\* str.replace(" ", "")
RemoveSpaces(s) == LET NotSpace(c) == c # " " IN SelectSeq(s, NotSpace)

RECURSIVE LStrip(_)
LStrip(s) == IF s # <<>> /\ Head(s) = " " THEN LStrip(Tail(s)) ELSE s

RECURSIVE RStrip(_)
RStrip(s) == IF s # <<>> /\ s[Len(s)] = " " THEN RStrip(SubSeq(s, 1, Len(s) - 1)) ELSE s

\* str.strip()
Strip(s) == RStrip(LStrip(s))

\* the Python expression  k in s  on strings
Contains(s, k) == \E i \in 0..(Len(s) - Len(k)) : SubSeq(s, i + 1, i + Len(k)) = k

\* Python's  a < b  on strings: lexicographic by code point
RECURSIVE StrLess(_, _)
StrLess(a, b) ==
  IF b = <<>> THEN FALSE
  ELSE IF a = <<>> THEN TRUE
  ELSE IF Head(a) = Head(b) THEN StrLess(Tail(a), Tail(b))
  ELSE Ord(Head(a)) < Ord(Head(b))

\* Python's None for a table cell, and for a column index
None == <<"<None>">>
NoneIdx == -1

\* truthiness of a cell: None and "" are falsy
Truthy(cell) == cell # None /\ cell # <<>>

\* str(h) of a header cell
Str(h) == IF h = None THEN <<"N", "o", "n", "e">> ELSE h

\* ------------------------------------------------------- extract_dep_scope
\* r'\b([CZ][A-Z0-9]{2,3})\b' against one word of the text: a match is a whole
\* word (both \b), so a page's text is modelled as its sequence of words
PatternMatches(w) ==
  /\ Len(w) \in {3, 4}
  /\ w[1] \in {"C", "Z"}
  /\ \A i \in 2..Len(w) : IsUpper(w[i]) \/ IsDigit(w[i])

\* re.findall(pattern, text)
FindAll(text) == SelectSeq(text, PatternMatches)

DenyList == {<<"C", "E", "N", "T">>, <<"C", "Y", "Z">>, <<"C", "Z">>}

Admit_NoDenyList(m) == Len(m) >= 3

\* the filter of line 42
Admit(m) == Len(m) >= 3 /\ Upper(m) \notin DenyList

\* the codes one page adds to the scope set (lines 39-43)
PageCodes(text) ==
  {Upper(FindAll(text)[i]) : i \in {j \in 1..Len(FindAll(text)) : Admit(FindAll(text)[j])}}

RECURSIVE Insert(_, _)
Insert(x, s) ==
  IF s = <<>> THEN <<x>>
  ELSE IF StrLess(x, Head(s)) THEN <<x>> \o s
  ELSE <<Head(s)>> \o Insert(x, Tail(s))

RECURSIVE SortedDesc(_)
SortedDesc(S) ==
  IF S = {} THEN <<>>
  ELSE LET x == CHOOSE y \in S : \A z \in S : z = y \/ StrLess(y, z)
       IN SortedDesc(S \ {x}) \o <<x>>

\* sorted(list(scope)): the set is listed in some order and sorted
RECURSIVE Sorted(_)
Sorted(S) ==
  IF S = {} THEN <<>>
  ELSE LET x == CHOOSE y \in S : TRUE IN Insert(x, Sorted(S \ {x}))

\* ------------------------------------------------------- find_column_index
AcidKeywords == <<<<"A", "C", "I", "D">>,
                  <<"A", "I", "R", "C", "R", "A", "F", "T">>,
                  <<"C", "A", "L", "L", "S", "I", "G", "N">>>>
DcentrKeywords == <<<<"D", "C", "E", "N", "T", "R">>,
                    <<"D", "E", "P">>,
                    <<"O", "R", "I", "G", "I", "N">>>>
DelayKeywords == <<<<"P", "G", "M">>,
                   <<"D", "E", "L", "A", "Y">>,
                   <<"P", "R", "O", "G", "R", "A", "M", "D", "E", "L", "A", "Y">>,
                   <<"M", "I", "N">>>>

\* h_clean of line 60
HClean(h) == RemoveSpaces(Upper(Str(h)))

\* the inner loop of lines 61-63: some keyword is in the cleaned cell
CellHits(h, keywords) == \E j \in 1..Len(keywords) : Contains(HClean(h), keywords[j])

find_column_index_last(headers, keywords) ==
  LET hit == {i \in 1..Len(headers) : CellHits(headers[i], keywords)}
  IN IF hit = {} THEN NoneIdx ELSE (CHOOSE i \in hit : \A j \in hit : j <= i) - 1

RECURSIVE ScanHeaders(_, _, _)
ScanHeaders(headers, keywords, idx) ==
  IF idx >= Len(headers) THEN NoneIdx
  ELSE IF CellHits(headers[idx + 1], keywords) THEN idx
  ELSE ScanHeaders(headers, keywords, idx + 1)

\* the enumerate loop of lines 59-64, 0-based result
find_column_index(headers, keywords) == ScanHeaders(headers, keywords, 0)

\* ------------------------------------------------------------- process_gdp
Max(a, b) == IF a >= b THEN a ELSE b

\* Python's  idx_delay or 0
OrZero(idx) == IF idx = NoneIdx \/ idx = 0 THEN 0 ELSE idx

\* line 120: not row or len(row) <= max(idx_acid, idx_dcentr, idx_delay or 0)
RowTooShort(r, ia, id, il) == r = <<>> \/ Len(r) <= Max(Max(ia, id), OrZero(il))

MatchFound_Exact(dcentr, scope_set) == Strip(Upper(dcentr)) \in scope_set

MatchFound_All(dcentr, scope_set) == \A s \in scope_set : Contains(Strip(Upper(dcentr)), s)

\* lines 129-132: any(s in dcentr_clean for s in scope_set)
MatchFound(dcentr, scope_set) == \E s \in scope_set : Contains(Strip(Upper(dcentr)), s)

\* re.sub(r"[^0-9]", "", s)
KeepDigits(s) == SelectSeq(s, IsDigit)

\* int() of a string of ASCII digits
RECURSIVE ToInt(_)
ToInt(d) == IF d = <<>> THEN 0 ELSE 10 * ToInt(SubSeq(d, 1, Len(d) - 1)) + DigitVal(d[Len(d)])

ParseDelay_FirstDigit(delay_str) ==
  IF Truthy(delay_str) /\ KeepDigits(Str(delay_str)) # <<>>
  THEN DigitVal(Head(KeepDigits(Str(delay_str)))) ELSE 0

\* lines 136-139
ParseDelay(delay_str) ==
  IF Truthy(delay_str) /\ KeepDigits(Str(delay_str)) # <<>>
  THEN ToInt(KeepDigits(Str(delay_str))) ELSE 0

\* line 125: row[idx_delay] if idx_delay is not None else "0"
DelayStr(r, il) == IF il # NoneIdx THEN r[il + 1] ELSE <<"0">>

\* fitz_page.search_for(acid): the number of places where the needle occurs on
\* the page, taken as the cells of the page's table that contain it (the
\* search ignores case)
SearchFor(grid, needle) ==
  Cardinality({p \in {<<i, j>> : i \in 1..Len(grid), j \in 1..4} :
                 /\ p[2] <= Len(grid[p[1]])
                 /\ Truthy(grid[p[1]][p[2]])
                 /\ Contains(Upper(grid[p[1]][p[2]]), Upper(needle))})

Highlights_NextPage(grid, page, acid) ==
  IF Truthy(acid) /\ SearchFor(grid, acid) > 0
  THEN [x \in {[page |-> page + 1, needle |-> acid]} |-> SearchFor(grid, acid)]
  ELSE EmptyBag

\* the highlights one matched row adds to its page (lines 145-150)
Highlights(grid, page, acid) ==
  IF Truthy(acid) /\ SearchFor(grid, acid) > 0
  THEN [x \in {[page |-> page, needle |-> acid]} |-> SearchFor(grid, acid)]
  ELSE EmptyBag

RatingOf_Exclusive(total, count) ==
  IF total <= 11 * count THEN "NIL"
  ELSE IF total <= 15 * count THEN "LOW"
  ELSE IF total <= 45 * count THEN "MODERATE"
  ELSE "HIGH"

\* lines 154-159 on avg = total / count, compared exactly (count = 0: avg = 0)
RatingOf(total, count) ==
  IF count = 0 THEN "NIL"
  ELSE IF total < 11 * count THEN "NIL"
  ELSE IF total < 15 * count THEN "LOW"
  ELSE IF total < 45 * count THEN "MODERATE"
  ELSE "HIGH"

\* floor(log2(n / 20)) for n >= 1
RECURSIVE Log2Up(_, _)
Log2Up(n, e) == IF 40 * (2 ^ e) <= n THEN Log2Up(n, e + 1) ELSE e
RECURSIVE Log2Down(_, _)
Log2Down(n, k) == IF n * (2 ^ k) < 20 THEN Log2Down(n, k + 1) ELSE k
Exponent(n) == IF n >= 20 THEN Log2Up(n, 0) ELSE 0 - Log2Down(n, 1)

\* 2^j mod 5
Pow2Mod5(j) == <<1, 2, 4, 3>>[(j % 4) + 1]

\* A mean exactly half way between two tenths, n / 20 with n = 2q + 1.  When
\* the double is exact (n divisible by 5) round() goes to the even tenth;
\* otherwise the double nearest to n / 20 lies below or above the half-way
\* point according to the fraction (n * 2^(50-e) mod 5) / 5 cut off by the
\* 53-bit significand, and round() follows it.
TieRoundsUp(q) ==
  LET n == 2 * q + 1
  IN IF n % 5 = 0 THEN q % 2 = 1
     ELSE (n * Pow2Mod5(50 - Exponent(n))) % 5 >= 3

Round1_Floor(total, count) == IF count = 0 THEN 0 ELSE (10 * total) \div count

\* round(avg, 1) of line 170, in tenths
Round1(total, count) ==
  IF count = 0 THEN 0
  ELSE LET q == (10 * total) \div count
           r == (10 * total) % count
       IN IF 2 * r < count THEN q
          ELSE IF 2 * r > count THEN q + 1
          ELSE IF TieRoundsUp(q) THEN q + 1 ELSE q

\* avg of line 154 as an exact fraction
Mean_Skewed(total, count) == IF count > 0 THEN [num |-> total, den |-> count + 1] ELSE [num |-> 0, den |-> 1]

Mean(total, count) == IF count > 0 THEN [num |-> total, den |-> count] ELSE [num |-> 0, den |-> 1]

\* ------------------------------------------------------------------ inputs
\* words an advisory page is made of
WordPool == {<<"Z", "N", "Y">>, <<"C", "Z", "E", "G">>, <<"C", "E", "N", "T">>, <<"C", "Y", "Z">>, <<"C", "Z">>,
             <<"Z", "n", "y">>, <<"Z", "N", "Y", "X", "5">>, <<"K", "B", "O", "S">>}

\* the texts of one advisory page: up to MaxWords words
RECURSIVE SeqsUpTo(_, _)
SeqsUpTo(S, n) ==
  IF n = 0 THEN {<<>>}
  ELSE SeqsUpTo(S, n - 1) \cup {Append(q, x) : q \in {t \in SeqsUpTo(S, n - 1) : Len(t) = n - 1}, x \in S}

TextPool == SeqsUpTo(WordPool, MaxWords)

\* results of extract_time_window: the sentinel or the captured text
NotDetected == <<"N", "o", "n", " ", "d", "e", "t", "e", "c", "t", "e", "e">>
WindowPool == {NotDetected, <<"1", "2", "0", "0", "Z", " ", "a", "n", "d", " ", "1", "4", "0", "0", "Z">>}

HeaderStd == <<<<"A", "C", "I", "D">>, <<"D", "C", "E", "N", "T", "R">>, <<"P", "g", "m", "D", "e", "l", "a", "y">>>>
HeaderAlt == <<<<"C", "a", "l", "l", "s", "i", "g", "n">>, <<"O", "r", "i", "g", "i", "n">>, <<"M", "i", "n", " ", "D", "e", "l", "a", "y">>>>
HeaderNoDelay == <<<<"A", "C", "I", "D">>, <<"D", "C", "E", "N", "T", "R">>>>
HeaderNoAcid == <<None, <<"D", "e", "p">>, <<"D", "e", "l", "a", "y">>>>
HeaderDelayFirst == <<<<"D", "e", "l", "a", "y">>, <<"A", "C", "I", "D">>, <<"D", "e", "p">>, <<"O", "r", "i", "g", "i", "n">>>>

RowACA == <<<<"A", "C", "A", "1", "2", "3">>, <<"K", "Z", "N", "Y">>, <<"4", "5", " ", "M", "I", "N">>>>
RowDAL == <<<<"D", "A", "L", "7", "7">>, <<"K", "B", "O", "S">>, <<"5", " ", "M", "I", "N">>>>
RowEmpty == <<>>
RowShort == <<<<"A", "C", "A", "1", "2", "3">>, <<"k", "z", "n", "y", " ">>>>
RowNone == <<None, <<"C", "Z", "E", "G">>, None>>
RowAbc == <<<<"U", "A", "L", "9">>, <<"Z", "N", "Y">>, <<"a", "b", "c">>>>
RowNoDep == <<<<"D", "A", "L", "7", "7">>, <<>>, <<"7">>>>
RowNoDelay == <<<<"U", "A", "L", "9">>, <<"C", "Z", "E", "G">>, <<>>>>
RowDelayFirst == <<<<"4", "5">>, <<"U", "A", "L", "9">>, <<"Z", "N", "Y">>>>

\* the tables of the arrivals pages: a header and the rows under it, of which
\* a page shows the first k
Catalogue ==
  {<<HeaderStd, <<RowACA, RowDAL, RowAbc, RowNone>>>>,
   <<HeaderStd, <<RowAbc, RowShort, RowACA, RowACA>>>>,
   <<HeaderAlt, <<RowNoDelay, RowEmpty, RowACA, RowACA>>>>,
   <<HeaderNoDelay, <<RowShort, RowNoDep, RowShort, RowACA>>>>,
   <<HeaderNoAcid, <<RowACA, RowDAL, RowACA, RowDAL>>>>,
   <<HeaderDelayFirst, <<RowDelayFirst, RowShort, RowDelayFirst, RowDelayFirst>>>>}

\* what page.extract_table gives for one page: a grid (<<>> when there is no
\* table), or an exception
Page(grid) == [grid |-> grid, raises |-> FALSE]
NoTablePage == [grid |-> <<>>, raises |-> FALSE]
RaisingPage == [grid |-> <<>>, raises |-> TRUE]

PagePool ==
  {NoTablePage, RaisingPage}
  \cup {Page(<<t[1]>> \o SubSeq(t[2], 1, k)) : t \in Catalogue, k \in 0..MaxRows}

\* long pages: n rows at a threshold delay, then m rows one minute below it
BandRow(d) == <<<<"A", "C", "A", "1", "2", "3">>, <<"Z", "N", "Y">>, d>>
BandDelays == {<<<<"1", "1">>, <<"1", "0">>>>, <<<<"1", "5">>, <<"1", "4">>>>, <<<<"4", "5">>, <<"4", "4">>>>}
LongPagePool ==
  {NoTablePage, RaisingPage, Page(<<HeaderNoAcid, RowACA>>), Page(<<HeaderStd>>),
   Page(<<HeaderStd, BandRow(<<"1", "0", "0">>)>>)}
  \cup {Page(<<HeaderStd>> \o [i \in 1..(n + m) |-> IF i <= n THEN BandRow(b[1]) ELSE BandRow(b[2])]) :
          b \in BandDelays, n \in {0, 1, MaxLongRows}, m \in {0, 1}}

\* ------------------------------------------------------------------- state
VARIABLES
  pc,            \* position of the run: idle, adv, window, pages, rows, done, error
  adv_n,         \* number of pages of the advisory
  adv_idx,       \* advisory pages scanned so far
  scope,         \* extract_dep_scope: the set being filled
  dep_scope,     \* process_gdp: the sorted scope
  time_window,   \* process_gdp: the detected window
  page_idx,      \* index of the arrivals page being read (0-based)
  table,         \* the grid of the page whose rows are being scanned
  raw_headers,   \* header row of the last page that had a table
  idx_acid,      \* resolved columns of that header
  idx_dcentr,
  idx_delay,
  ri,            \* rows of the current table already scanned
  impacted_rows, \* the matched rows
  total_delay,
  annots,        \* bag of highlight annotations added to the document
  logs,
  avg,           \* the exact mean of line 154
  result         \* what process_gdp returned

vars == <<pc, adv_n, adv_idx, scope, dep_scope, time_window, page_idx, table,
          raw_headers, idx_acid, idx_dcentr, idx_delay, ri, impacted_rows, total_delay,
          annots, logs, avg, result>>

NoResult == [scope |-> <<>>, window |-> <<>>, count |-> 0, total |-> 0, avg |-> 0,
             rating |-> "", pdf |-> EmptyBag, logs |-> <<>>]

\* the page before the button is pressed
Init ==
  /\ pc = "idle"
  /\ adv_n = 0
  /\ adv_idx = 0
  /\ scope = {}
  /\ dep_scope = <<>>
  /\ time_window = <<>>
  /\ page_idx = 0
  /\ table = <<>>
  /\ raw_headers = <<>>
  /\ idx_acid = NoneIdx
  /\ idx_dcentr = NoneIdx
  /\ idx_delay = NoneIdx
  /\ ri = 0
  /\ impacted_rows = <<>>
  /\ total_delay = 0
  /\ annots = EmptyBag
  /\ logs = <<>>
  /\ avg = [num |-> 0, den |-> 1]
  /\ result = NoResult

\* the button is pressed (again): a fresh run of process_gdp opens the advisory
Click ==
  /\ pc \in {"idle", "done", "error"}
  /\ \E n \in 1..MaxAdvPages : adv_n' = n
  /\ pc' = "adv"
  /\ adv_idx' = 0
  /\ scope' = {}
  /\ dep_scope' = <<>>
  /\ time_window' = <<>>
  /\ page_idx' = 0
  /\ table' = <<>>
  /\ raw_headers' = <<>>
  /\ idx_acid' = NoneIdx
  /\ idx_dcentr' = NoneIdx
  /\ idx_delay' = NoneIdx
  /\ ri' = 0
  /\ impacted_rows' = <<>>
  /\ total_delay' = 0
  /\ annots' = EmptyBag
  /\ logs' = <<>>
  /\ avg' = [num |-> 0, den |-> 1]
  /\ result' = NoResult

\* extract_dep_scope, one page of the advisory (lines 34-43)
ScanAdvisoryPage ==
  /\ pc = "adv"
  /\ adv_idx < adv_n
  /\ \E text \in TextPool : scope' = scope \cup PageCodes(text)
  /\ adv_idx' = adv_idx + 1
  /\ UNCHANGED <<pc, adv_n, dep_scope, time_window, page_idx, table, raw_headers,
                 idx_acid, idx_dcentr, idx_delay, ri, impacted_rows, total_delay, annots,
                 logs, avg, result>>

\* extract_dep_scope returns (line 45); process_gdp logs the scope (lines 70-74)
ReturnScope ==
  /\ pc = "adv"
  /\ adv_idx = adv_n
  /\ dep_scope' = Sorted(scope)
  /\ logs' = IF Sorted(scope) = <<>>
             THEN <<<<"scope", 0>>, <<"warn_no_fir", 0>>>>
             ELSE <<<<"scope", Len(Sorted(scope))>>>>
  /\ pc' = "window"
  /\ UNCHANGED <<adv_n, adv_idx, scope, time_window, page_idx, table, raw_headers,
                 idx_acid, idx_dcentr, idx_delay, ri, impacted_rows, total_delay, annots,
                 avg, result>>

\* extract_time_window, and the arrivals document is opened (lines 77-92)
ExtractTimeWindow ==
  /\ pc = "window"
  /\ \E w \in WindowPool : time_window' = w
  /\ page_idx' = 0
  /\ pc' = "pages"
  /\ UNCHANGED <<adv_n, adv_idx, scope, dep_scope, table, raw_headers, idx_acid, idx_dcentr,
                 idx_delay, ri, impacted_rows, total_delay, annots, logs, avg, result>>

\* one iteration of the page loop up to the row loop (lines 93-116); the
\* document has at least one and at most maxp pages
ReadPage(pool, maxp) ==
  /\ pc = "pages"
  /\ page_idx < maxp
  /\ \E pg \in pool :
       IF pg.raises
       THEN \* extract_table raises: nothing in process_gdp catches it, the
            \* handler of line 228 reports it and no result is produced
            /\ pc' = "error"
            /\ UNCHANGED <<page_idx, table, raw_headers, idx_acid, idx_dcentr, idx_delay, logs>>
       ELSE IF pg.grid = <<>>
       THEN /\ logs' = Append(logs, <<"no_table", page_idx + 1>>)
            /\ page_idx' = page_idx + 1
            /\ UNCHANGED <<pc, table, raw_headers, idx_acid, idx_dcentr, idx_delay>>
       ELSE LET ia == find_column_index(pg.grid[1], AcidKeywords)
                id == find_column_index(pg.grid[1], DcentrKeywords)
                il == find_column_index(pg.grid[1], DelayKeywords)
                rowsToScan == ia # NoneIdx /\ id # NoneIdx /\ Len(pg.grid) > 1
            IN /\ raw_headers' = pg.grid[1]
               /\ idx_acid' = ia
               /\ idx_dcentr' = id
               /\ idx_delay' = il
               /\ logs' = IF page_idx = 0 THEN Append(logs, <<"columns", 0>>) ELSE logs
               /\ table' = IF rowsToScan THEN pg.grid ELSE <<>>
               /\ pc' = IF rowsToScan THEN "rows" ELSE "pages"
               /\ page_idx' = IF rowsToScan THEN page_idx ELSE page_idx + 1
  /\ ri' = 0
  /\ UNCHANGED <<adv_n, adv_idx, scope, dep_scope, time_window, impacted_rows,
                 total_delay, annots, avg, result>>

\* the set built at line 87
ScopeSet == {dep_scope[i] : i \in 1..Len(dep_scope)}

\* the row the row loop is at
CurrentRow == table[ri + 2]

\* line 128 and line 134 for a row that passed line 120
RowMatches(r) == Truthy(r[idx_dcentr + 1]) /\ MatchFound(r[idx_dcentr + 1], ScopeSet)

\* one iteration of the row loop (lines 118-150)
ProcessRow ==
  /\ pc = "rows"
  /\ LET r == CurrentRow
         hit == ~RowTooShort(r, idx_acid, idx_dcentr, idx_delay) /\ RowMatches(r)
         delay_val == ParseDelay(DelayStr(r, idx_delay))
     IN IF hit
        THEN /\ impacted_rows' = Append(impacted_rows,
                   [acid |-> r[idx_acid + 1], dcentr |-> r[idx_dcentr + 1], delay |-> delay_val])
             /\ total_delay' = total_delay + delay_val
             /\ annots' = annots (+) Highlights(table, page_idx, r[idx_acid + 1])
        ELSE UNCHANGED <<impacted_rows, total_delay, annots>>
  /\ IF ri + 2 = Len(table)
     THEN /\ pc' = "pages"
          /\ page_idx' = page_idx + 1
          /\ table' = <<>>
          /\ ri' = 0
     ELSE /\ ri' = ri + 1
          /\ UNCHANGED <<pc, page_idx, table>>
  /\ UNCHANGED <<adv_n, adv_idx, scope, dep_scope, time_window, raw_headers,
                 idx_acid, idx_dcentr, idx_delay, logs, avg, result>>

\* the statistics, the export and the return (lines 152-177)
Finish ==
  /\ pc = "pages"
  /\ page_idx >= 1
  /\ avg' = Mean(total_delay, Len(impacted_rows))
  /\ result' = [scope |-> dep_scope, window |-> time_window,
                count |-> Len(impacted_rows), total |-> total_delay,
                avg |-> Round1(total_delay, Len(impacted_rows)),
                rating |-> RatingOf(total_delay, Len(impacted_rows)),
                pdf |-> annots, logs |-> logs]
  /\ pc' = "done"
  /\ UNCHANGED <<adv_n, adv_idx, scope, dep_scope, time_window, page_idx, table,
                 raw_headers, idx_acid, idx_dcentr, idx_delay, ri, impacted_rows,
                 total_delay, annots, logs>>

Next ==
  \/ Click
  \/ ScanAdvisoryPage
  \/ ReturnScope
  \/ ExtractTimeWindow
  \/ ReadPage(PagePool, MaxPages)
  \/ ProcessRow
  \/ Finish

Spec == Init /\ [][Next]_vars

\* the same run on arrivals documents with long pages around the thresholds
NextLong ==
  \/ Click
  \/ ScanAdvisoryPage
  \/ ReturnScope
  \/ ExtractTimeWindow
  \/ ReadPage(LongPagePool, MaxLongPages)
  \/ ProcessRow
  \/ Finish

SpecLong == Init /\ [][NextLong]_vars

\* ------------------------------------------------------------------ claims
\* a step of Click: the only step that starts a run over
Restart == pc \in {"idle", "done", "error"}

Ratings == {"NIL", "LOW", "MODERATE", "HIGH"}

\* C1: the rating of a returned result is decided by the exact mean
\* total / count (0 when count = 0): below 11 NIL, from 11 below 15 LOW, from
\* 15 below 45 MODERATE, from 45 HIGH; means 10, 11, 14, 15, 44, 45, 100 give
\* NIL, LOW, LOW, MODERATE, MODERATE, HIGH, HIGH; exactly one rating is given.
C1_RatingByExactMean ==
  pc = "done" =>
    LET t == result.total
        c == result.count
        MeanIs(k) == c > 0 /\ t = k * c
    IN /\ result.rating \in Ratings
       /\ (c = 0 \/ t < 11 * c) <=> result.rating = "NIL"
       /\ (c > 0 /\ 11 * c <= t /\ t < 15 * c) <=> result.rating = "LOW"
       /\ (c > 0 /\ 15 * c <= t /\ t < 45 * c) <=> result.rating = "MODERATE"
       /\ (c > 0 /\ 45 * c <= t) <=> result.rating = "HIGH"
       /\ MeanIs(10) => result.rating = "NIL"
       /\ MeanIs(11) => result.rating = "LOW"
       /\ MeanIs(14) => result.rating = "LOW"
       /\ MeanIs(15) => result.rating = "MODERATE"
       /\ MeanIs(44) => result.rating = "MODERATE"
       /\ MeanIs(45) => result.rating = "HIGH"
       /\ MeanIs(100) => result.rating = "HIGH"

\* a run of several rows whose mean is exactly 11 returned LOW
C1_Witness ==
  pc = "done" /\ result.count > 1 /\ result.total = 11 * result.count /\ result.rating = "LOW"

\* C2: a row is emitted exactly when it is a data row of a page whose header
\* resolved identifier and departure centre, is non-empty and longer than the
\* largest resolved index, and its departure-centre cell is non-empty and,
\* uppercased, contains a scope code; rows are appended in document order, one
\* per row, and nothing else changes the list.
C2_Qualifies(r) ==
  /\ r # <<>>
  /\ Len(r) > idx_acid
  /\ Len(r) > idx_dcentr
  /\ idx_delay # NoneIdx => Len(r) > idx_delay
  /\ r[idx_dcentr + 1] # None
  /\ r[idx_dcentr + 1] # <<>>
  /\ \E i \in 1..Len(dep_scope) : Contains(Upper(r[idx_dcentr + 1]), dep_scope[i])

C2_Step ==
  IF pc = "rows"
  THEN /\ idx_acid # NoneIdx
       /\ idx_dcentr # NoneIdx
       /\ ri + 2 <= Len(table)
       /\ IF C2_Qualifies(table[ri + 2])
          THEN /\ Len(impacted_rows') = Len(impacted_rows) + 1
               /\ SubSeq(impacted_rows', 1, Len(impacted_rows)) = impacted_rows
               /\ impacted_rows'[Len(impacted_rows')].acid = table[ri + 2][idx_acid + 1]
               /\ impacted_rows'[Len(impacted_rows')].dcentr = table[ri + 2][idx_dcentr + 1]
          ELSE impacted_rows' = impacted_rows
       /\ ri' = IF pc' = "rows" THEN ri + 1 ELSE 0
  ELSE IF Restart THEN impacted_rows' = <<>>
  ELSE impacted_rows' = impacted_rows

C2_ExactlyQualifyingRows == [][C2_Step]_vars

\* scope ZNY: the row with KZNY was emitted, the row with KBOS is next
C2_Witness ==
  /\ pc = "rows"
  /\ table = <<HeaderStd, RowACA, RowDAL>>
  /\ ri = 1
  /\ dep_scope = <<<<"Z", "N", "Y">>>>
  /\ Len(impacted_rows) = 1
  /\ impacted_rows[1].dcentr = <<"K", "Z", "N", "Y">>

\* C3: with an empty DepScope no row is ever classified as impacted, and the
\* returned count, total and mean are 0 and the rating NIL.
C3_EmptyScopeNoMatch ==
  (dep_scope = <<>> /\ pc \in {"window", "pages", "rows", "done"}) =>
    /\ impacted_rows = <<>>
    /\ total_delay = 0
    /\ pc = "done" =>
         /\ result.count = 0
         /\ result.total = 0
         /\ avg.num = 0
         /\ result.avg = 0
         /\ result.rating = "NIL"

\* empty scope, and a row whose departure centre is KZNY has been scanned
C3_Witness ==
  /\ dep_scope = <<>>
  /\ pc = "rows"
  /\ ri = 1
  /\ table[2] = RowACA
  /\ raw_headers = HeaderStd

\* C4: the delay of a matched row is the number written by the digits of the
\* delay cell in order, and 0 when the cell is empty, None, without a digit,
\* or when no delay column was resolved; "45 MIN", "45", "", None, "abc"
\* give 45, 45, 0, 0, 0.
C4_DigitChars == {"0", "1", "2", "3", "4", "5", "6", "7", "8", "9"}

RECURSIVE C4_Value(_, _)
C4_Value(s, acc) ==
  IF s = <<>> THEN acc
  ELSE IF Head(s) \in C4_DigitChars
       THEN C4_Value(Tail(s), 10 * acc + (CHOOSE v \in 0..9 : Digits[v + 1] = Head(s)))
       ELSE C4_Value(Tail(s), acc)

C4_Step ==
  (pc = "rows" /\ Len(impacted_rows') = Len(impacted_rows) + 1) =>
    LET d == impacted_rows'[Len(impacted_rows')].delay
        cell == IF idx_delay = NoneIdx THEN None ELSE table[ri + 2][idx_delay + 1]
    IN /\ d \in Nat
       /\ d = IF cell = None THEN 0 ELSE C4_Value(cell, 0)
       /\ cell = <<"4", "5", " ", "M", "I", "N">> => d = 45
       /\ cell = <<"4", "5">> => d = 45
       /\ cell = <<>> => d = 0
       /\ cell = None => d = 0
       /\ cell = <<"a", "b", "c">> => d = 0
       /\ total_delay' = total_delay + d

C5_IsFirst(headers, keywords, idx) ==
  IF \E i \in 1..Len(headers) : CellHits(headers[i], keywords)
  THEN /\ idx \in 0..(Len(headers) - 1)
       /\ CellHits(headers[idx + 1], keywords)
       /\ \A i \in 1..idx : ~CellHits(headers[i], keywords)
  ELSE idx = NoneIdx

C5_FirstMatchingColumn ==
  raw_headers # <<>> =>
    /\ C5_IsFirst(raw_headers, AcidKeywords, idx_acid)
    /\ C5_IsFirst(raw_headers, DcentrKeywords, idx_dcentr)
    /\ C5_IsFirst(raw_headers, DelayKeywords, idx_delay)
    /\ raw_headers = HeaderAlt => idx_acid = 0 /\ idx_dcentr = 1 /\ idx_delay = 2

\* a header with two departure-centre candidates resolved to the first one
C5_Witness ==
  /\ raw_headers = HeaderDelayFirst
  /\ idx_acid = 1
  /\ idx_dcentr = 2
  /\ idx_delay = 0

\* C6: a page whose table extraction fails never aborts the run.
C6_ExtractionFailureContained == pc # "error"

\* C7: the DepScope is strictly ascending and holds no denylisted token.
C7_SortedNoDenylist ==
  /\ \A i \in 1..Len(dep_scope) : \A j \in 1..Len(dep_scope) :
       i < j => StrLess(dep_scope[i], dep_scope[j])
  /\ \A i \in 1..Len(dep_scope) : dep_scope[i] \notin DenyList

\* an advisory that named two regions
C7_Witness == pc = "window" /\ Len(dep_scope) = 2

\* C8: the document only gains highlights, and only for the identifier of a
\* row that was just classified as impacted, on that row's page; with no
\* impacted row there is no highlight, and the returned document carries
\* exactly the highlights added.
C8_Step ==
  /\ impacted_rows = <<>> => annots = EmptyBag
  /\ pc = "done" => result.pdf = annots /\ (result.count = 0 => result.pdf = EmptyBag)
  /\ IF Restart THEN annots' = EmptyBag
     ELSE /\ \A a \in BagToSet(annots) : CopiesIn(a, annots') >= CopiesIn(a, annots)
          /\ \A a \in BagToSet(annots') :
               CopiesIn(a, annots') > CopiesIn(a, annots) =>
                 /\ pc = "rows"
                 /\ Len(impacted_rows') = Len(impacted_rows) + 1
                 /\ a.page = page_idx
                 /\ a.needle = impacted_rows'[Len(impacted_rows')].acid
                 /\ a.needle = table[ri + 2][idx_acid + 1]

C8_OnlyHighlightsOfImpacted == [][C8_Step]_vars

\* a run with matches returned a document with highlights
C8_Witness == pc = "done" /\ result.count > 0 /\ result.pdf # EmptyBag

\* C9 as claimed: the rating is decided by the reported mean (the avg field, in
\* tenths).  Every tenth is the exact mean of some run, and by C1 such a run
\* carries the band of that value, so the only function the rating could be
\* of the reported mean is the band function: 11.0 LOW, 15.0 MODERATE, 45.0 HIGH.
BandOfTenths(a) ==
  IF a < 110 THEN "NIL" ELSE IF a < 150 THEN "LOW" ELSE IF a < 450 THEN "MODERATE" ELSE "HIGH"

C9_RatingByReportedMean ==
  pc = "done" =>
    /\ result.rating = BandOfTenths(result.avg)
    /\ result.avg = 110 => result.rating = "LOW"
    /\ result.avg = 150 => result.rating = "MODERATE"
    /\ result.avg = 450 => result.rating = "HIGH"

\* C9 amended: the reported mean is the exact mean rounded to the nearest
\* tenth, and the rating is the band of the reported mean except when the
\* reported mean is exactly 11.0, 15.0 or 45.0 and the exact mean is below it:
\* then the rating is the band below (NIL, LOW, MODERATE).
BandBelow(a) == IF a = 110 THEN "NIL" ELSE IF a = 150 THEN "LOW" ELSE "MODERATE"

C9_RatingByRoundedMean ==
  pc = "done" =>
    LET t == result.total
        c == result.count
        a == result.avg
        diff == IF 10 * t >= a * c THEN 10 * t - a * c ELSE a * c - 10 * t
    IN /\ c = 0 => a = 0
       /\ c > 0 => 2 * diff <= c
       /\ IF c > 0 /\ a \in {110, 150, 450} /\ 10 * t < a * c
          THEN result.rating = BandBelow(a)
          ELSE result.rating = BandOfTenths(a)

\* a result reporting 11.0 that carries NIL
C9_Witness == pc = "done" /\ result.avg = 110 /\ result.rating = "NIL"

\* C10: total_delay is the sum of the delays of the impacted rows and is not
\* negative; the returned count is their number and the mean is total / count
\* (0 without rows); skipped or unmatched rows and pages leave both unchanged.
RECURSIVE C10_Sum(_)
C10_Sum(rows) == IF rows = <<>> THEN 0 ELSE rows[1].delay + C10_Sum(Tail(rows))

C10_State ==
  /\ total_delay = C10_Sum(impacted_rows)
  /\ total_delay >= 0
  /\ pc = "done" =>
       /\ result.count = Len(impacted_rows)
       /\ result.total = total_delay
       /\ avg.den > 0
       /\ IF result.count > 0
          THEN avg.num * result.count = result.total * avg.den
          ELSE avg.num = 0

C10_Step ==
  /\ C10_State
  /\ C10_State'
  /\ (pc = "rows" /\ ~C2_Qualifies(table[ri + 2])) => UNCHANGED <<impacted_rows, total_delay>>
  /\ pc \in {"adv", "window", "pages"} => UNCHANGED <<impacted_rows, total_delay>>

C10_TotalIsSumOfImpacted == [][C10_Step]_vars

\* two rows were emitted, one with a delay and one without, and returned
C10_Witness ==
  /\ pc = "done"
  /\ result.count = 2
  /\ result.total = 45
  /\ avg = [num |-> 45, den |-> 2]

====
